---------------------------- MODULE Spec2Model ----------------------------
(***************************************************************************)
(* A model of home_dashboard: the two fetch-and-normalise functions        *)
(* (bus_api.fetch_bus_arrivals, weather_api.fetch_weather) and the         *)
(* dashboard request handler of app.py that fans them out with             *)
(* asyncio.gather.                                                         *)
(*                                                                         *)
(* Upstream JSON is modelled as tagged values (null, str, num, list, obj); *)
(* a Python call that can raise is modelled as a record with a `raised`    *)
(* flag, so that an exception escaping a function is an observable result. *)
(***************************************************************************)
EXTENDS Integers, Sequences, FiniteSets, TLC

(***************************************************************************)
(* Python values                                                           *)
(***************************************************************************)
None == [some |-> FALSE]
Some(x) == [some |-> TRUE, v |-> x]

\* JSON values as response.json() returns them.  A str is either plain text
\* (field v) or the text of an ISO-8601 timestamp, kept as the fields
\* datetime.fromisoformat reads from it (field iso).
Null == [t |-> "null"]
Str(s) == [t |-> "str", v |-> s]
IsoStr(w, a, o) == [t |-> "str", iso |-> [wall |-> w, aware |-> a, off |-> o]]
Num(n) == [t |-> "num", n |-> n]
Float(k) == [t |-> "float", tenths |-> k]
List(s) == [t |-> "list", items |-> s]
Obj(f) == [t |-> "obj", fields |-> f]

\* A key that the upstream left out of an object.
Missing == [t |-> "missing"]
Field(k, j) == IF j.t = "missing" THEN <<>> ELSE k :> j

\* bool(x)
Truthy(j) ==
    CASE j.t = "null" -> FALSE
      [] j.t = "str"  -> ("iso" \in DOMAIN j) \/ j.v # ""
      [] j.t = "num"  -> j.n # 0
      [] j.t = "float" -> j.tenths # 0
      [] j.t = "list" -> Len(j.items) > 0
      [] j.t = "obj"  -> DOMAIN j.fields # {}

\* x == "text"
StrEq(j, s) == j.t = "str" /\ "v" \in DOMAIN j /\ j.v = s

\* A call that returned x / a call that raised exception class e.
Ret(x) == [raised |-> FALSE, value |-> x]
Raise(e) == [raised |-> TRUE, exc |-> e]

\* d.get(k, default): only a dict has .get
Get(d, k, default) ==
    IF d.t # "obj" THEN Raise("AttributeError")
    ELSE Ret(IF k \in DOMAIN d.fields THEN d.fields[k] ELSE default)

\* x[0]
Subscript0(j) ==
    CASE j.t = "list" -> IF Len(j.items) > 0 THEN Ret(j.items[1]) ELSE Raise("IndexError")
      [] j.t = "str"  -> IF Truthy(j) THEN Ret(Str("c")) ELSE Raise("IndexError")
      [] j.t = "obj"  -> Raise("KeyError")
      [] OTHER        -> Raise("TypeError")

\* The largest decimal literal read from a str (a bound of the model)
MaxLiteral == 40

Max(a, b) == IF a >= b THEN a ELSE b

(***************************************************************************)
(* bus_api.py                                                              *)
(***************************************************************************)
\* BusLoad(value): the member with that value, ValueError for any other
BusLoad(j) ==
    IF j.t = "str" /\ "v" \in DOMAIN j /\ j.v \in {"SEA", "SDA", "LSD", ""}
    THEN Ret(CASE j.v = "SEA" -> "SEATS_AVAILABLE"
               [] j.v = "SDA" -> "STANDING_AVAILABLE"
               [] j.v = "LSD" -> "LIMITED_STANDING"
               [] j.v = ""    -> "UNKNOWN")
    ELSE Raise("ValueError")

BusType(j) ==
    IF j.t = "str" /\ "v" \in DOMAIN j /\ j.v \in {"SD", "DD", "BD", ""}
    THEN Ret(CASE j.v = "SD" -> "SINGLE_DECK"
               [] j.v = "DD" -> "DOUBLE_DECK"
               [] j.v = "BD" -> "BENDY"
               [] j.v = ""   -> "UNKNOWN")
    ELSE Raise("ValueError")

BusArrival(ea, m, l, bt, wab, arr, hd) ==
    [estimated_arrival |-> ea, minutes_away |-> m, load |-> l, bus_type |-> bt,
     is_wheelchair_accessible |-> wab, is_arriving |-> arr, has_data |-> hd]

BusArrivalResponse(stop, svc, arrs, at, err) ==
    [bus_stop_code |-> stop, service_no |-> svc, arrivals |-> arrs,
     fetched_at |-> at, error |-> err]

\* datetime.fromisoformat(s)
fromisoformat(j) ==
    IF j.t # "str" THEN Raise("TypeError")
    ELSE IF "iso" \in DOMAIN j THEN Ret(j.iso)
    ELSE Raise("ValueError")

\* estimated.replace(tzinfo=timezone.utc) when estimated is naive
AssumeUtc(dt) == IF dt.aware THEN dt ELSE [dt EXCEPT !.aware = TRUE, !.off = 0]

\* (a - b).total_seconds() of two aware datetimes
TotalSeconds(a, b) == (a.wall - a.off) - (b.wall - b.off)

MinutesNoClamp(delta_seconds) == delta_seconds \div 60

\* max(0, int(delta_seconds // 60))
Minutes(delta_seconds) == Max(0, delta_seconds \div 60)

Placeholder == BusArrival(None, None, "UNKNOWN", "UNKNOWN", FALSE, FALSE, FALSE)

\* The enum lookups of _parse_arrival, each in its own try/except ValueError
LoadOf(bus_data) ==
    LET r == BusLoad(Get(bus_data, "Load", Str("")).value)
    IN  IF r.raised THEN "UNKNOWN" ELSE r.value

TypeOf(bus_data) ==
    LET r == BusType(Get(bus_data, "Type", Str("")).value)
    IN  IF r.raised THEN "UNKNOWN" ELSE r.value

_parse_arrival(bus_data, now_) ==
    LET e == Get(bus_data, "EstimatedArrival", Str(""))
    IN  IF e.raised THEN e
        ELSE IF ~Truthy(e.value) THEN Ret(Placeholder)
        ELSE LET p == fromisoformat(e.value)
             IN  IF p.raised THEN p
                 ELSE LET estimated == AssumeUtc(p.value)
                          minutes == Minutes(TotalSeconds(estimated, now_))
                          feature == Get(bus_data, "Feature", Str("")).value
                      IN  Ret(BusArrival(Some(estimated), Some(minutes),
                                         LoadOf(bus_data), TypeOf(bus_data),
                                         StrEq(feature, "WAB"), minutes <= 1, TRUE))

\* The except clauses of fetch_bus_arrivals in their written order.  exc is
\* what the try block raised: httpx.TimeoutException is a RequestError, so
\* the order of the clauses decides which message a timeout gets.
\* isinstance(exc, cls) for the httpx classes the clauses name.
Isinstance(exc, cls) ==
    CASE cls = "TimeoutException" -> exc.kind \in {"ConnectTimeout", "ReadTimeout"}
      [] cls = "HTTPStatusError"  -> exc.kind = "HTTPStatusError"
      [] cls = "RequestError"     -> exc.kind \in {"ConnectTimeout", "ReadTimeout",
                                                   "ConnectError", "TooManyRedirects"}
      [] cls = "Exception"        -> TRUE

ExceptClausesNetworkFirst(exc) ==
    IF Isinstance(exc, "RequestError") THEN "Network error"
    ELSE IF Isinstance(exc, "TimeoutException") THEN "API request timed out"
    ELSE IF Isinstance(exc, "HTTPStatusError")
         THEN "API returned HTTP " \o ToString(exc.code)
    ELSE "Unexpected error"

ExceptClauses(exc) ==
    IF Isinstance(exc, "TimeoutException") THEN "API request timed out"
    ELSE IF Isinstance(exc, "HTTPStatusError")
         THEN "API returned HTTP " \o ToString(exc.code)
    ELSE IF Isinstance(exc, "RequestError") THEN "Network error"
    ELSE "Unexpected error"

SlotKeys == <<"NextBus", "NextBus2", "NextBus3">>

\* The body of the loop over the slot keys: acc is [raised, value] with value
\* the arrivals appended so far; an exception ends the loop.
SlotStepKeepAll(acc, service, key, now_) ==
    IF acc.raised THEN acc
    ELSE LET bus_data == Get(service, key, Obj(<<>>))
         IN  IF bus_data.raised THEN bus_data
             ELSE IF ~Truthy(bus_data.value) THEN acc
             ELSE LET arrival == _parse_arrival(bus_data.value, now_)
                  IN  IF arrival.raised THEN arrival
                      ELSE Ret(Append(acc.value, arrival.value))

SlotStep(acc, service, key, now_) ==
    IF acc.raised THEN acc
    ELSE LET bus_data == Get(service, key, Obj(<<>>))
         IN  IF bus_data.raised THEN bus_data
             ELSE IF ~Truthy(bus_data.value) THEN acc
             ELSE LET arrival == _parse_arrival(bus_data.value, now_)
                  IN  IF arrival.raised THEN arrival
                      ELSE IF arrival.value.has_data
                           THEN Ret(Append(acc.value, arrival.value))
                           ELSE acc

SlotLoop(service, now_) ==
    SlotStep(SlotStep(SlotStep(Ret(<<>>), service, SlotKeys[1], now_),
                      service, SlotKeys[2], now_),
             service, SlotKeys[3], now_)

\* http is what httpx.get / raise_for_status / response.json() did inside the
\* try block: [kind |-> "ok", body |-> json] or the exception raised.
fetch_bus_arrivals(bus_stop_code, service_no, now_, http) ==
    IF http.kind # "ok"
    THEN Ret(BusArrivalResponse(bus_stop_code, service_no, <<>>, now_,
                                Some(ExceptClauses(http))))
    ELSE LET services == Get(http.body, "Services", List(<<>>))
         IN  IF services.raised THEN services
             ELSE IF ~Truthy(services.value)
             THEN Ret(BusArrivalResponse(bus_stop_code, service_no, <<>>, now_,
                          Some("No service data. Bus may not be operating.")))
             ELSE LET service == Subscript0(services.value)
                  IN  IF service.raised THEN service
                      ELSE LET arrivals == SlotLoop(service.value, now_)
                           IN  IF arrivals.raised THEN arrivals
                               ELSE Ret(BusArrivalResponse(bus_stop_code, service_no,
                                            arrivals.value, now_, None))

(***************************************************************************)
(* weather_api.py                                                          *)
(***************************************************************************)
_FORECAST_2H_URL == "https://api.data.gov.sg/v1/environment/2-hour-weather-forecast"
_FORECAST_24H_URL == "https://api.data.gov.sg/v1/environment/24-hour-weather-forecast"
_PM25_URL == "https://api.data.gov.sg/v1/environment/pm25"

_pm25_level_strict(value) ==
    IF value < 55 THEN "Good"
    ELSE IF value < 150 THEN "Moderate"
    ELSE IF value < 250 THEN "Unhealthy"
    ELSE IF value < 350 THEN "Very Unhealthy"
    ELSE "Hazardous"

_pm25_level(value) ==
    IF value <= 55 THEN "Good"
    ELSE IF value <= 150 THEN "Moderate"
    ELSE IF value <= 250 THEN "Unhealthy"
    ELSE IF value <= 350 THEN "Very Unhealthy"
    ELSE "Hazardous"

_pm25_css_class(value) ==
    IF value <= 55 THEN "aqi-good"
    ELSE IF value <= 150 THEN "aqi-moderate"
    ELSE "aqi-unhealthy"

WeatherInfo(fc, tl, th, hl, hh, pm, lvl, css, err) ==
    [forecast |-> fc, temp_low |-> tl, temp_high |-> th, humidity_low |-> hl,
     humidity_high |-> hh, pm25 |-> pm, pm25_level |-> lvl,
     pm25_css_class |-> css, error |-> err]

\* str.lower() on the area names that occur
Lower(s) ==
    CASE s \in {"Punggol", "PUNGGOL", "punggol"} -> "punggol"
      [] s \in {"Bedok", "bedok"} -> "bedok"
      [] OTHER -> s

\* x.lower(): only a str has it
LowerOf(j) ==
    IF j.t # "str" THEN Raise("AttributeError")
    ELSE IF "v" \in DOMAIN j THEN Ret(Lower(j.v))
    ELSE Ret("<timestamp>")

\* int(x) of a decimal literal in a str
ParseInt(s) ==
    IF \E n \in 0..MaxLiteral : ToString(n) = s
    THEN Ret(CHOOSE n \in 0..MaxLiteral : ToString(n) = s)
    ELSE Raise("ValueError")

\* int(x)
IntOf(j) ==
    CASE j.t = "num"   -> Ret(j.n)
      [] j.t = "float" -> Ret(IF j.tenths >= 0 THEN j.tenths \div 10
                              ELSE -((-j.tenths) \div 10))
      [] j.t = "str"   -> IF "v" \in DOMAIN j THEN ParseInt(j.v) ELSE Raise("ValueError")
      [] OTHER         -> Raise("TypeError")

\* for f in x: the elements a for loop visits
Iterate(j) ==
    CASE j.t = "list" -> Ret(j.items)
      [] j.t = "str"  -> Ret(IF Truthy(j) THEN <<Str("c")>> ELSE <<>>)
      [] j.t = "obj"  -> Ret(IF Truthy(j) THEN <<Str("k")>> ELSE <<>>)
      [] OTHER        -> Raise("TypeError")

\* The local variables of fetch_weather as it starts.
WeatherLocals ==
    [forecast |-> Str(""), temp_low |-> 0, temp_high |-> 0, humidity_low |-> 0,
     humidity_high |-> 0, pm25_value |-> None, errors |-> <<>>]

\* resp is what httpx.get / raise_for_status / resp.json() did:
\* [kind |-> "ok", body |-> json] or an exception.  Each try block below gives
\* [raised, value]: value is what the block left in the locals, also when it
\* raised part-way.
Partial(w) == [raised |-> TRUE, value |-> w]

RECURSIVE ForecastLoop(_, _, _, _)
ForecastLoop(w, forecasts, i, area_) ==
    IF i > Len(forecasts) THEN Ret(w)
    ELSE LET a == Get(forecasts[i], "area", Str(""))
         IN  IF a.raised THEN Partial(w)
             ELSE LET l == LowerOf(a.value)
                  IN  IF l.raised THEN Partial(w)
                      ELSE IF l.value = Lower(area_)
                      THEN Ret([w EXCEPT !.forecast =
                                   Get(forecasts[i], "forecast", Str("")).value])
                      ELSE ForecastLoop(w, forecasts, i + 1, area_)

ForecastTry(w, resp, area_) ==
    IF resp.kind # "ok" THEN Partial(w)
    ELSE LET items == Get(resp.body, "items", List(<<>>))
         IN  IF items.raised THEN Partial(w)
             ELSE IF ~Truthy(items.value) THEN Ret(w)
             ELSE LET item == Subscript0(items.value)
                  IN  IF item.raised THEN Partial(w)
                      ELSE LET fs == Get(item.value, "forecasts", List(<<>>))
                           IN  IF fs.raised THEN Partial(w)
                               ELSE LET it == Iterate(fs.value)
                                    IN  IF it.raised THEN Partial(w)
                                        ELSE ForecastLoop(w, it.value, 1, area_)

\* int(d.get(k, 0)) of a value d that should be a dict
IntField(d, k) ==
    LET x == Get(d, k, Num(0))
    IN  IF x.raised THEN x ELSE IntOf(x.value)

\* The four assignments from `general`, in order
RangeTry(w, general) ==
    LET temp == Get(general, "temperature", Obj(<<>>)).value
        tl == IntField(temp, "low")
    IN  IF tl.raised THEN Partial(w)
        ELSE LET w1 == [w EXCEPT !.temp_low = tl.value]
                 th == IntField(temp, "high")
             IN  IF th.raised THEN Partial(w1)
                 ELSE LET w2 == [w1 EXCEPT !.temp_high = th.value]
                          humidity == Get(general, "relative_humidity", Obj(<<>>)).value
                          hl == IntField(humidity, "low")
                      IN  IF hl.raised THEN Partial(w2)
                          ELSE LET w3 == [w2 EXCEPT !.humidity_low = hl.value]
                                   hh == IntField(humidity, "high")
                               IN  IF hh.raised THEN Partial(w3)
                                   ELSE Ret([w3 EXCEPT !.humidity_high = hh.value])

TemperatureTry(w, resp) ==
    IF resp.kind # "ok" THEN Partial(w)
    ELSE LET items == Get(resp.body, "items", List(<<>>))
         IN  IF items.raised THEN Partial(w)
             ELSE IF ~Truthy(items.value) THEN Ret(w)
             ELSE LET item == Subscript0(items.value)
                  IN  IF item.raised THEN Partial(w)
                      ELSE LET general == Get(item.value, "general", Obj(<<>>))
                           IN  IF general.raised \/ general.value.t # "obj"
                               THEN Partial(w)
                               ELSE RangeTry(w, general.value)

Pm25Try(w, resp, pm25_region_) ==
    IF resp.kind # "ok" THEN Partial(w)
    ELSE LET items == Get(resp.body, "items", List(<<>>))
         IN  IF items.raised THEN Partial(w)
             ELSE IF ~Truthy(items.value) THEN Ret(w)
             ELSE LET item == Subscript0(items.value)
                  IN  IF item.raised THEN Partial(w)
                      ELSE LET readings == Get(item.value, "readings", Obj(<<>>))
                           IN  IF readings.raised THEN Partial(w)
                               ELSE LET hourly == Get(readings.value, "pm25_one_hourly", Obj(<<>>))
                                    IN  IF hourly.raised THEN Partial(w)
                                        ELSE LET raw_value == Get(hourly.value, pm25_region_, Null)
                                             IN  IF raw_value.raised THEN Partial(w)
                                                 ELSE IF raw_value.value.t = "null" THEN Ret(w)
                                                 ELSE LET n == IntOf(raw_value.value)
                                                      IN  IF n.raised THEN Partial(w)
                                                          ELSE Ret([w EXCEPT !.pm25_value = Some(n.value)])

\* The three try/except blocks: a block that raised appends its name.
Caught(r, name) ==
    IF r.raised THEN [r.value EXCEPT !.errors = Append(@, name)] ELSE r.value

ForecastStepFlagNoMatch(w, resp, area_) ==
    LET r == ForecastTry(w, resp, area_)
    IN  IF r.raised \/ ~Truthy(r.value.forecast)
        THEN [r.value EXCEPT !.errors = Append(@, "weather forecast")]
        ELSE r.value

ForecastStep(w, resp, area_) == Caught(ForecastTry(w, resp, area_), "weather forecast")

TemperatureStepAbort(w, resp) ==
    LET r == TemperatureTry(w, resp)
    IN  IF r.raised THEN [WeatherLocals EXCEPT !.errors = <<"temperature">>]
        ELSE r.value

TemperatureStep(w, resp) == Caught(TemperatureTry(w, resp), "temperature")

Pm25StepFlagNoKey(w, resp, pm25_region_) ==
    LET r == Pm25Try(w, resp, pm25_region_)
    IN  IF r.raised \/ ~r.value.pm25_value.some
        THEN [r.value EXCEPT !.errors = Append(@, "PM2.5")]
        ELSE r.value

Pm25Step(w, resp, pm25_region_) == Caught(Pm25Try(w, resp, pm25_region_), "PM2.5")

\* ", ".join(errors)
RECURSIVE Join(_)
Join(names) ==
    IF Len(names) = 0 THEN ""
    ELSE IF Len(names) = 1 THEN names[1]
    ELSE names[1] \o ", " \o Join(Tail(names))

\* The return statement of fetch_weather
BuildWeatherInfo(w) ==
    WeatherInfo(IF Truthy(w.forecast) THEN w.forecast ELSE Str("N/A"),
                w.temp_low, w.temp_high, w.humidity_low, w.humidity_high,
                w.pm25_value,
                IF w.pm25_value.some THEN _pm25_level(w.pm25_value.v) ELSE "N/A",
                IF w.pm25_value.some THEN _pm25_css_class(w.pm25_value.v) ELSE "",
                IF Len(w.errors) > 0
                THEN Some("Failed to fetch: " \o Join(w.errors)) ELSE None)

fetch_weather(area_, pm25_region_, r2h, r24h, rpm) ==
    BuildWeatherInfo(
        Pm25Step(TemperatureStep(ForecastStep(WeatherLocals, r2h, area_), r24h),
                 rpm, pm25_region_))

(***************************************************************************)
(* app.py: the dashboard handler                                           *)
(***************************************************************************)
\* The number of configured bus services (config.bus_services; a bound)
NumServices == 2

bus_services ==
    [i \in 1..NumServices |->
        [stop_code |-> "stop" \o ToString(i), service_no |-> "svc" \o ToString(i),
         stop_name |-> "name" \o ToString(i)]]

\* asyncio.gather(*aws) without return_exceptions, as the awaiting coroutine
\* sees it: the first exception raised by a child is propagated as soon as
\* it is raised (the other children keep running); otherwise, once every
\* child is done, the list of results in the order of aws.
gather(ts) ==
    IF \E i \in DOMAIN ts : ts[i].state = "raised" THEN [state |-> "raised"]
    ELSE IF \A i \in DOMAIN ts : ts[i].state = "returned"
    THEN [state |-> "returned", results |-> [i \in DOMAIN ts |-> ts[i].result]]
    ELSE [state |-> "pending"]

\* zip(config.bus_services, results[:-1]) and results[-1]
BuildContext(results) ==
    [bus_sections |-> [i \in 1..(Len(results) - 1) |->
                          [config |-> bus_services[i], result |-> results[i]]],
     weather |-> results[Len(results)]]

(***************************************************************************)
(* What the upstreams can answer                                           *)
(***************************************************************************)
\* How far ahead of the reference instant an arrival may be (a bound)
MaxLeadMinutes == 3
\* The longest list of per-area forecasts (a bound)
MaxForecasts == 2

Utc == [wall |-> 100000, aware |-> TRUE, off |-> 0]
Nows == {Utc, [Utc EXCEPT !.wall = 100001]}

Instants == {100000 + 60 * m + r : m \in (-2)..MaxLeadMinutes, r \in {0, 59}}
IsoStrs ==
    {IsoStr(i, FALSE, 0) : i \in Instants}
    \cup {IsoStr(i + o, TRUE, o) : i \in Instants, o \in {0, 28800}}

Slot(e, l, ty, f) ==
    Obj(Field("EstimatedArrival", e) @@ Field("Load", l) @@ Field("Type", ty)
        @@ Field("Feature", f))

\* Slots with a timestamp the upstream documents
GoodSlots ==
    {Slot(e, Str("SEA"), Str("SD"), Str("WAB")) : e \in IsoStrs}
    \cup {Slot(IsoStr(100190 + 28800, TRUE, 28800), l, ty, f) :
            l \in {Str("SDA"), Str("LSD"), Str(""), Str("XX"), Missing, Num(1)},
            ty \in {Str("DD"), Str("BD"), Str("bendy"), Missing},
            f \in {Str(""), Missing}}
\* Slots without a prediction: left out, null, {}, or no / empty arrival time
EmptySlots ==
    {Missing, Null, Obj(<<>>), Slot(Missing, Str("SEA"), Str("SD"), Str("WAB")),
     Slot(Str(""), Str(""), Str(""), Str("")), Slot(Null, Str("SEA"), Str("SD"), Missing)}
\* Slots the parser cannot read
BadSlots ==
    {Str("x"), List(<<Num(1)>>),
     Slot(Str("soon"), Str("SEA"), Str("SD"), Str("WAB")),
     Slot(Num(5), Str("SEA"), Str("SD"), Str("WAB"))}

FirstSlots == GoodSlots \cup EmptySlots \cup BadSlots
LaterSlots ==
    {Missing, Obj(<<>>), Slot(Str(""), Str(""), Str(""), Str("")),
     Slot(IsoStr(100120 + 28800, TRUE, 28800), Str("SDA"), Str("DD"), Str("")),
     Slot(IsoStr(99940, FALSE, 0), Str("LSD"), Str("BD"), Str("WAB")),
     Slot(Str("soon"), Str("SEA"), Str("SD"), Str("WAB"))}

Service(a, b, c) ==
    Obj(("ServiceNo" :> Str("34")) @@ Field("NextBus", a) @@ Field("NextBus2", b)
        @@ Field("NextBus3", c))

ServiceEntries == {Service(a, b, c) : a \in FirstSlots, b \in LaterSlots, c \in LaterSlots}

AnotherService ==
    Service(Slot(IsoStr(100600, TRUE, 0), Str("LSD"), Str("DD"), Str("")), Missing, Missing)

BusBodies ==
    {Obj("Services" :> List(<<e>>)) : e \in ServiceEntries}
    \cup {Obj("Services" :> List(<<e, x>>)) :
            e \in {Service(a, Missing, Missing) : a \in EmptySlots \cup BadSlots},
            x \in {AnotherService, Null}}
    \cup {Obj("Services" :> List(<<e, AnotherService>>)) : e \in {Null, Str("x"), Num(1)}}
    \cup {Obj(Field("Services", x)) :
            x \in {Missing, List(<<>>), Null, Obj(<<>>), Num(0), Num(5),
                   Obj("a" :> Num(1))}}
    \cup {List(<<>>), Null, Str("busy"), Num(0)}

Exceptions ==
    {[kind |-> k] : k \in {"ConnectTimeout", "ReadTimeout", "ConnectError",
                           "TooManyRedirects", "JSONDecodeError", "RuntimeError"}}
    \cup {[kind |-> "HTTPStatusError", code |-> c] : c \in {404, 500}}

BusResponses == Exceptions \cup {[kind |-> "ok", body |-> b] : b \in BusBodies}

Areas == {"Punggol", "PUNGGOL"}
Regions == {"north"}

Entry(a, f) == Obj(Field("area", a) @@ Field("forecast", f))
ForecastEntries ==
    {Entry(Str("Punggol"), Str("Cloudy")), Entry(Str("punggol"), Str("Showers")),
     Entry(Str("PUNGGOL"), Missing), Entry(Str("Bedok"), Str("Fair")),
     Entry(Missing, Str("Windy")), Entry(Null, Str("Hazy"))}
RECURSIVE SeqsUpTo(_, _)
SeqsUpTo(S, n) ==
    IF n = 0 THEN {<<>>}
    ELSE LET shorter == SeqsUpTo(S, n - 1)
         IN  shorter \cup {Append(q, x) : q \in shorter, x \in S}

Items(x) == Obj(Field("items", x))
ForecastBodies ==
    {Items(List(<<Obj("forecasts" :> List(fs))>>)) : fs \in SeqsUpTo(ForecastEntries, MaxForecasts)}
    \cup {Items(x) : x \in {Missing, List(<<>>), Null, Num(1), List(<<Null>>),
                            List(<<Obj(<<>>)>>), List(<<Obj("forecasts" :> Null)>>),
                            List(<<Obj("forecasts" :> List(<<Str("x")>>))>>)}}
    \cup {List(<<>>), Null}
ForecastResponses == Exceptions \cup {[kind |-> "ok", body |-> b] : b \in ForecastBodies}

Range(lo, hi) == Obj(Field("low", lo) @@ Field("high", hi))
General(t, h) == Obj(Field("temperature", t) @@ Field("relative_humidity", h))
Readings == {Num(24), Str("25"), Float(267), Float(-5), Missing, Null, Str("warm")}
Generals ==
    {General(Range(a, Num(31)), Range(Num(60), Num(95))) : a \in Readings}
    \cup {General(Range(Num(24), a), Range(Num(60), Num(95))) : a \in Readings}
    \cup {General(Range(Num(24), Num(31)), Range(a, Num(95))) : a \in Readings}
    \cup {General(Range(Num(24), Num(31)), Range(Num(60), a)) : a \in Readings}
    \cup {General(t, h) : t \in {Missing, Null, Range(Num(24), Num(31))},
                          h \in {Missing, Null, Str("humid"), Range(Num(60), Num(95))}}
TemperatureBodies ==
    {Items(List(<<Obj("general" :> g)>>)) : g \in Generals}
    \cup {Items(x) : x \in {Missing, List(<<>>), Null, Num(1), List(<<Null>>),
                            List(<<Obj(<<>>)>>), List(<<Obj("general" :> Null)>>)}}
    \cup {List(<<>>), Null}
TemperatureResponses ==
    Exceptions \cup {[kind |-> "ok", body |-> b] : b \in TemperatureBodies}

Pm25Readings ==
    {Num(n) : n \in {0, 12, 55, 56, 150, 151, 250, 251, 350, 351, 500}}
    \cup {Float(555), Str("31"), Str("high"), Null, List(<<>>)}
Hourlies ==
    {Obj(("north" :> x) @@ ("east" :> Num(9))) : x \in Pm25Readings}
    \cup {Obj("east" :> Num(9)), Obj(<<>>), Null, Str("x")}
Pm25Bodies ==
    {Items(List(<<Obj("readings" :> Obj("pm25_one_hourly" :> h))>>)) : h \in Hourlies}
    \cup {Items(x) : x \in {Missing, List(<<>>), Null, Num(1), List(<<Null>>),
                            List(<<Obj(<<>>)>>), List(<<Obj("readings" :> Null)>>),
                            List(<<Obj("readings" :> Obj(<<>>))>>)}}
    \cup {List(<<>>), Null}
Pm25Responses == Exceptions \cup {[kind |-> "ok", body |-> b] : b \in Pm25Bodies}

\* The answers the dashboard's branches draw from
DashBusResponses ==
    {[kind |-> "ReadTimeout"], [kind |-> "ConnectError"],
     [kind |-> "ok", body |-> Obj("Services" :> List(<<>>))],
     [kind |-> "ok", body |-> Obj("Services" :> List(<<AnotherService>>))],
     [kind |-> "ok", body |-> List(<<>>)]}
DashForecastResponses ==
    {[kind |-> "ReadTimeout"],
     [kind |-> "ok", body |->
        Items(List(<<Obj("forecasts" :> List(<<Entry(Str("Punggol"), Str("Cloudy"))>>))>>))]}
DashTemperatureResponses ==
    {[kind |-> "ReadTimeout"],
     [kind |-> "ok", body |->
        Items(List(<<Obj("general" :> General(Range(Num(24), Num(31)),
                                               Range(Num(60), Num(95))))>>))]}
DashPm25Responses ==
    {[kind |-> "ReadTimeout"],
     [kind |-> "ok", body |->
        Items(List(<<Obj("readings" :> Obj("pm25_one_hourly" :> Obj("north" :> Num(12))))>>))]}

(***************************************************************************)
(* State                                                                   *)
(***************************************************************************)
VARIABLES
    now,          \* fetch_bus_arrivals: datetime.now(timezone.utc) at call start
    bus_pc,       \* fetch_bus_arrivals: "call", "done"
    bus_resp,     \* what the HTTP request of the call did
    bus_ret,      \* what the call gave its caller: returned value or exception
    area,         \* fetch_weather: its area argument
    pm25_region,  \* fetch_weather: its pm25_region argument
    wx_pc,        \* fetch_weather: "forecast", "temperature", "pm25", "return", "done"
    w,            \* fetch_weather: its local variables
    calls,        \* the requests fetch_weather made so far, with their answers
    wx_ret,       \* the WeatherInfo returned
    tasks,        \* dashboard: the N+1 awaitables handed to gather
    handler,      \* dashboard: "gather", "rendered", "raised"
    context       \* dashboard: the template context built

vars == <<now, bus_pc, bus_resp, bus_ret, area, pm25_region, wx_pc, w, calls,
          wx_ret, tasks, handler, context>>
bus_vars == <<now, bus_pc, bus_resp, bus_ret>>
wx_vars == <<area, pm25_region, wx_pc, w, calls, wx_ret>>
dash_vars == <<tasks, handler, context>>

BusIdle == now = Utc /\ bus_pc = "idle" /\ bus_resp = None /\ bus_ret = None
WeatherIdle ==
    /\ area = "Punggol" /\ pm25_region = "north" /\ wx_pc = "idle"
    /\ w = WeatherLocals /\ calls = <<>> /\ wx_ret = None
DashIdle == tasks = <<>> /\ handler = "idle" /\ context = None

(***************************************************************************)
(* One call of fetch_bus_arrivals                                          *)
(***************************************************************************)
InitBus ==
    /\ now \in Nows /\ bus_pc = "call" /\ bus_resp = None /\ bus_ret = None
    /\ WeatherIdle /\ DashIdle

BusFetch ==
    /\ bus_pc = "call"
    /\ \E resp \in BusResponses :
        /\ bus_resp' = Some(resp)
        /\ bus_ret' = fetch_bus_arrivals("65629", "34", now, resp)
    /\ bus_pc' = "done"
    /\ UNCHANGED <<now, wx_vars, dash_vars>>

NextBus == BusFetch
SpecBus == InitBus /\ [][NextBus]_vars

(***************************************************************************)
(* One call of fetch_weather, one try block at a time                      *)
(***************************************************************************)
InitWeather ==
    /\ area \in Areas /\ pm25_region \in Regions /\ wx_pc = "forecast"
    /\ w = WeatherLocals /\ calls = <<>> /\ wx_ret = None
    /\ BusIdle /\ DashIdle

Forecast2h ==
    /\ wx_pc = "forecast"
    /\ \E resp \in ForecastResponses :
        /\ w' = ForecastStep(w, resp, area)
        /\ calls' = Append(calls, [url |-> _FORECAST_2H_URL, resp |-> resp])
    /\ wx_pc' = "temperature"
    /\ UNCHANGED <<area, pm25_region, wx_ret, bus_vars, dash_vars>>

Forecast24h ==
    /\ wx_pc = "temperature"
    /\ \E resp \in TemperatureResponses :
        /\ w' = TemperatureStep(w, resp)
        /\ calls' = Append(calls, [url |-> _FORECAST_24H_URL, resp |-> resp])
    /\ wx_pc' = "pm25"
    /\ UNCHANGED <<area, pm25_region, wx_ret, bus_vars, dash_vars>>

Pm25 ==
    /\ wx_pc = "pm25"
    /\ \E resp \in Pm25Responses :
        /\ w' = Pm25Step(w, resp, pm25_region)
        /\ calls' = Append(calls, [url |-> _PM25_URL, resp |-> resp])
    /\ wx_pc' = "return"
    /\ UNCHANGED <<area, pm25_region, wx_ret, bus_vars, dash_vars>>

WeatherReturn ==
    /\ wx_pc = "return"
    /\ wx_ret' = Some(BuildWeatherInfo(w))
    /\ wx_pc' = "done"
    /\ UNCHANGED <<area, pm25_region, w, calls, bus_vars, dash_vars>>

NextWeather == Forecast2h \/ Forecast24h \/ Pm25 \/ WeatherReturn
SpecWeather == InitWeather /\ [][NextWeather]_vars

(***************************************************************************)
(* One request to the dashboard                                            *)
(***************************************************************************)
Running == [state |-> "running"]

Init ==
    /\ tasks = [i \in 1..(NumServices + 1) |-> Running]
    /\ handler = "gather" /\ context = None
    /\ BusIdle /\ WeatherIdle

\* What a thread's function gave: a return value or an exception
Done(r) ==
    IF r.raised THEN [state |-> "raised", exc |-> r.exc]
    ELSE [state |-> "returned", result |-> r.value]

\* The thread of bus service i runs fetch_bus_arrivals to its end.
BusThread(i) ==
    /\ i \in 1..NumServices
    /\ tasks[i].state = "running"
    /\ \E resp \in DashBusResponses :
        tasks' = [tasks EXCEPT ![i] =
            Done(fetch_bus_arrivals(bus_services[i].stop_code,
                                    bus_services[i].service_no, now, resp))]
    /\ UNCHANGED <<handler, context, bus_vars, wx_vars>>

\* The thread of fetch_weather runs to its end.
WeatherThread ==
    /\ tasks[NumServices + 1].state = "running"
    /\ \E r2h \in DashForecastResponses, r24h \in DashTemperatureResponses,
          rpm \in DashPm25Responses :
        tasks' = [tasks EXCEPT ![NumServices + 1] =
            Done(Ret(fetch_weather(area, pm25_region, r2h, r24h, rpm)))]
    /\ UNCHANGED <<handler, context, bus_vars, wx_vars>>

\* `results = await asyncio.gather(...)` resumes the handler.
HandlerResume ==
    /\ handler = "gather"
    /\ LET g == gather(tasks)
       IN  /\ g.state # "pending"
           /\ IF g.state = "raised"
              THEN handler' = "raised" /\ context' = context
              ELSE handler' = "rendered" /\ context' = Some(BuildContext(g.results))
    /\ UNCHANGED <<tasks, bus_vars, wx_vars>>

Next == (\E i \in 1..NumServices : BusThread(i)) \/ WeatherThread \/ HandlerResume
Spec == Init /\ [][Next]_vars

(***************************************************************************)
(* Properties of fetch_bus_arrivals (checked under SpecBus)                *)
(***************************************************************************)
BusDone == bus_pc = "done"
BusReturned == BusDone /\ ~bus_ret.raised
BusSucceeded == BusReturned /\ ~bus_ret.value.error.some

\* The upstream answered with a JSON object that has at least one service
\* entry; FirstService is that entry.
HasEntries(body) ==
    /\ body.t = "obj" /\ "Services" \in DOMAIN body.fields
    /\ body.fields["Services"].t = "list" /\ Len(body.fields["Services"].items) > 0
FirstService == bus_resp.v.body.fields["Services"].items[1]

\* Slot key k of service entry svc holds a well-formed arrival-time string.
HasArrivalTime(svc, k) ==
    /\ svc.t = "obj" /\ k \in DOMAIN svc.fields
    /\ svc.fields[k].t = "obj" /\ "EstimatedArrival" \in DOMAIN svc.fields[k].fields
    /\ svc.fields[k].fields["EstimatedArrival"].t = "str"
    /\ "iso" \in DOMAIN svc.fields[k].fields["EstimatedArrival"]
ArrivalTime(svc, k) == svc.fields[k].fields["EstimatedArrival"].iso

\* The slot keys of svc that hold an arrival time, in slot order
TimedSlots(svc) ==
    LET Timed(k) == HasArrivalTime(svc, k) IN SelectSeq(SlotKeys, Timed)

\* The instant an arrival-time string names, in seconds (UTC when it names
\* no zone)
InstantOf(S) == IF S.aware THEN S.wall - S.off ELSE S.wall

\* C1: fetch_bus_arrivals never throws: whatever the HTTP request did and
\* whatever JSON the upstream sent, the call returns a BusArrivalResponse.
C1_NeverThrows == BusDone => ~bus_ret.raised

\* What C3 says the error field is for an answer of the upstream.
NoServiceEntries(body) ==
    /\ body.t = "obj"
    /\ \/ "Services" \notin DOMAIN body.fields
       \/ ~Truthy(body.fields["Services"])
ExpectedError(resp) ==
    CASE resp.kind \in {"ConnectTimeout", "ReadTimeout"} -> Some("API request timed out")
      [] resp.kind = "HTTPStatusError" /\ resp.code = 404 -> Some("API returned HTTP 404")
      [] resp.kind = "HTTPStatusError" /\ resp.code = 500 -> Some("API returned HTTP 500")
      [] resp.kind \in {"ConnectError", "TooManyRedirects"} -> Some("Network error")
      [] resp.kind \in {"JSONDecodeError", "RuntimeError"} -> Some("Unexpected error")
      [] resp.kind = "ok" /\ NoServiceEntries(resp.body) ->
            Some("No service data. Bus may not be operating.")
      [] OTHER -> None

\* C3: the error field of a returned response is the message of the outcome
\* class (timeout, HTTP status, other request failure, other exception, no
\* service entries), absent in every other case, and present only with empty
\* arrivals; a timeout is never reported as "Network error".
C3_ErrorByOutcome ==
    BusReturned =>
        /\ bus_ret.value.error = ExpectedError(bus_resp.v)
        /\ bus_ret.value.error.some => bus_ret.value.arrivals = <<>>
        /\ bus_resp.v.kind \in {"ConnectTimeout", "ReadTimeout"}
              => bus_ret.value.error # Some("Network error")

C3_Witness ==
    /\ BusReturned
    /\ bus_resp.v.kind = "ReadTimeout"
    /\ bus_ret.value.error = Some("API request timed out")
    /\ bus_ret.value.arrivals = <<>>

\* C7: every slot with a well-formed arrival time S gives a record with
\* minutes_away = max(0, floor((parse(S) - now) / 60 s)) and is_arriving iff
\* minutes_away <= 1, now being the one instant returned as fetched_at.
C7_MinutesAway ==
    (BusSucceeded /\ HasEntries(bus_resp.v.body)) =>
        LET timed == TimedSlots(FirstService)
            arrivals == bus_ret.value.arrivals
        IN  /\ bus_ret.value.fetched_at = now
            /\ Len(arrivals) = Len(timed)
            /\ \A i \in 1..Len(timed) :
                LET d == InstantOf(ArrivalTime(FirstService, timed[i])) - now.wall
                    m == arrivals[i].minutes_away
                IN  /\ m.some /\ m.v >= 0
                    /\ d < 60 => m.v = 0
                    /\ d >= 60 => (60 * m.v <= d /\ d < 60 * (m.v + 1))
                    /\ arrivals[i].is_arriving <=> m.v <= 1

\* An arrival time already past gives 0 minutes, and one 3 minutes ahead gives 3.
C7_Witness ==
    /\ BusSucceeded /\ HasEntries(bus_resp.v.body)
    /\ Len(bus_ret.value.arrivals) = 2
    /\ HasArrivalTime(FirstService, "NextBus")
    /\ InstantOf(ArrivalTime(FirstService, "NextBus")) = now.wall + 60 * MaxLeadMinutes + 58
    /\ bus_ret.value.arrivals[1].minutes_away = Some(MaxLeadMinutes)
    /\ HasArrivalTime(FirstService, "NextBus3")
    /\ InstantOf(ArrivalTime(FirstService, "NextBus3")) < now.wall
    /\ bus_ret.value.arrivals[2].minutes_away = Some(0)
    /\ bus_ret.value.arrivals[2].is_arriving

\* C10: a successful call with at least one service entry builds arrivals
\* from the first entry alone: one record per slot that holds an arrival
\* time, in the order NextBus, NextBus2, NextBus3, each with has_data, at
\* most three; a slot left out, empty or without arrival time adds nothing
\* and does not suppress the slots after it.
C10_ArrivalsFromSlots ==
    (BusSucceeded /\ HasEntries(bus_resp.v.body)) =>
        LET timed == TimedSlots(FirstService)
            arrivals == bus_ret.value.arrivals
        IN  /\ Len(arrivals) <= 3
            /\ \A i \in 1..Len(arrivals) : arrivals[i].has_data
            /\ [i \in 1..Len(arrivals) |-> arrivals[i].estimated_arrival]
                 = [i \in 1..Len(timed) |->
                      Some(AssumeUtc(ArrivalTime(FirstService, timed[i])))]

\* A first slot without arrival time, a second slot with one, and a second
\* service entry that is not used.
C10_Witness ==
    /\ BusSucceeded /\ HasEntries(bus_resp.v.body)
    /\ "NextBus" \in DOMAIN FirstService.fields
    /\ Truthy(FirstService.fields["NextBus"])
    /\ ~HasArrivalTime(FirstService, "NextBus")
    /\ HasArrivalTime(FirstService, "NextBus2")
    /\ HasArrivalTime(FirstService, "NextBus3")
    /\ Len(bus_ret.value.arrivals) = 2

(***************************************************************************)
(* Properties of fetch_weather (checked under SpecWeather)                 *)
(***************************************************************************)
WeatherDone == wx_pc = "done"
Recorded(name) == \E i \in 1..Len(w.errors) : w.errors[i] = name

\* The sub-fetches whose try block raised, each taken on its own
ForecastFailed == ForecastTry(WeatherLocals, calls[1].resp, area).raised
TemperatureFailed == TemperatureTry(WeatherLocals, calls[2].resp).raised
Pm25Failed == Pm25Try(WeatherLocals, calls[3].resp, pm25_region).raised

\* C4: all three sub-fetches are attempted, in the order forecast,
\* temperature, PM2.5; the error is unset iff none failed and otherwise
\* "Failed to fetch: " with the failed names comma-joined in that order; and
\* the fields of a sub-fetch that did not fail carry what it fetched.
C4_PartialFailure ==
    WeatherDone =>
        LET f == ForecastFailed
            t == TemperatureFailed
            p == Pm25Failed
            info == wx_ret.v
        IN  /\ [i \in 1..Len(calls) |-> calls[i].url]
                 = <<"https://api.data.gov.sg/v1/environment/2-hour-weather-forecast",
                     "https://api.data.gov.sg/v1/environment/24-hour-weather-forecast",
                     "https://api.data.gov.sg/v1/environment/pm25">>
            /\ info.error =
                 CASE ~f /\ ~t /\ ~p -> None
                   [] f /\ ~t /\ ~p -> Some("Failed to fetch: weather forecast")
                   [] ~f /\ t /\ ~p -> Some("Failed to fetch: temperature")
                   [] ~f /\ ~t /\ p -> Some("Failed to fetch: PM2.5")
                   [] f /\ t /\ ~p -> Some("Failed to fetch: weather forecast, temperature")
                   [] f /\ ~t /\ p -> Some("Failed to fetch: weather forecast, PM2.5")
                   [] ~f /\ t /\ p -> Some("Failed to fetch: temperature, PM2.5")
                   [] f /\ t /\ p ->
                        Some("Failed to fetch: weather forecast, temperature, PM2.5")
            /\ ~f => LET own == ForecastTry(WeatherLocals, calls[1].resp, area).value
                     IN  info.forecast =
                             IF Truthy(own.forecast) THEN own.forecast ELSE Str("N/A")
            /\ ~t => LET own == TemperatureTry(WeatherLocals, calls[2].resp).value
                     IN  /\ info.temp_low = own.temp_low
                         /\ info.temp_high = own.temp_high
                         /\ info.humidity_low = own.humidity_low
                         /\ info.humidity_high = own.humidity_high
            /\ ~p => info.pm25 =
                        Pm25Try(WeatherLocals, calls[3].resp, pm25_region).value.pm25_value

\* Only the PM2.5 sub-fetch fails.
C4_Witness ==
    /\ WeatherDone
    /\ wx_ret.v.error = Some("Failed to fetch: PM2.5")
    /\ wx_ret.v.forecast = Str("Cloudy")
    /\ wx_ret.v.temp_low = 24 /\ wx_ret.v.temp_high = 31
    /\ wx_ret.v.humidity_low = 60 /\ wx_ret.v.humidity_high = 95
    /\ wx_ret.v.pm25 = None /\ wx_ret.v.pm25_level = "N/A"

\* The 2-hour request succeeded with a body of the documented shape.
ForecastEntriesOf(body) ==
    IF ~Truthy(Get(body, "items", List(<<>>)).value) THEN <<>>
    ELSE Get(body.fields["items"].items[1], "forecasts", List(<<>>)).value.items
WellFormedForecast(resp) ==
    /\ resp.kind = "ok" /\ resp.body.t = "obj"
    /\ Get(resp.body, "items", List(<<>>)).value.t = "list"
    /\ Truthy(Get(resp.body, "items", List(<<>>)).value) =>
          /\ resp.body.fields["items"].items[1].t = "obj"
          /\ Get(resp.body.fields["items"].items[1], "forecasts", List(<<>>)).value.t = "list"
    /\ \A i \in 1..Len(ForecastEntriesOf(resp.body)) :
          LET e == ForecastEntriesOf(resp.body)[i]
          IN  e.t = "obj" /\ Get(e, "area", Str("")).value.t = "str"
NoAreaMatch(resp) ==
    /\ WellFormedForecast(resp)
    /\ \A i \in 1..Len(ForecastEntriesOf(resp.body)) :
          Lower(Get(ForecastEntriesOf(resp.body)[i], "area", Str("")).value.v) # Lower(area)

\* C5 as stated: when the request succeeds and no entry of the first batch
\* matches the area, forecast_text is "N/A" and "weather forecast" is
\* recorded as failed, so the error names it.
C5_NoMatchRecorded ==
    (WeatherDone /\ NoAreaMatch(calls[1].resp)) =>
        /\ wx_ret.v.forecast = Str("N/A")
        /\ Recorded("weather forecast") /\ wx_ret.v.error.some

\* C5 as amended: when the request succeeds and no entry of the first batch
\* matches the area, forecast_text is "N/A" but "weather forecast" is not
\* recorded as failed; it is recorded exactly when the request or the
\* extraction raises.
C5_NoMatchSilent ==
    WeatherDone =>
        /\ NoAreaMatch(calls[1].resp) =>
              /\ wx_ret.v.forecast = Str("N/A")
              /\ ~Recorded("weather forecast")
        /\ Recorded("weather forecast") <=> ForecastFailed

\* Entries for other areas only, every sub-fetch succeeding: no error at all.
C5_Witness ==
    /\ WeatherDone /\ NoAreaMatch(calls[1].resp)
    /\ Len(ForecastEntriesOf(calls[1].resp.body)) = MaxForecasts
    /\ wx_ret.v.forecast = Str("N/A")
    /\ wx_ret.v.error = None

\* The PM2.5 request succeeded and the one-hour readings of the first batch
\* are an object without the region key.
HourlyOf(body) ==
    Get(Get(body.fields["items"].items[1], "readings", Obj(<<>>)).value,
        "pm25_one_hourly", Obj(<<>>)).value
NoRegionKey(resp) ==
    /\ resp.kind = "ok" /\ resp.body.t = "obj"
    /\ Get(resp.body, "items", List(<<>>)).value.t = "list"
    /\ Truthy(Get(resp.body, "items", List(<<>>)).value)
    /\ resp.body.fields["items"].items[1].t = "obj"
    /\ Get(resp.body.fields["items"].items[1], "readings", Obj(<<>>)).value.t = "obj"
    /\ HourlyOf(resp.body).t = "obj"
    /\ pm25_region \notin DOMAIN HourlyOf(resp.body).fields

\* C6 as stated: when the request succeeds and the readings lack the region
\* key, pm25 is unset (level "N/A", empty style) and "PM2.5" is recorded as
\* failed, so the error names it.
C6_NoKeyRecorded ==
    (WeatherDone /\ NoRegionKey(calls[3].resp)) =>
        /\ wx_ret.v.pm25 = None /\ wx_ret.v.pm25_level = "N/A"
        /\ wx_ret.v.pm25_css_class = ""
        /\ Recorded("PM2.5") /\ wx_ret.v.error.some

\* C6 as amended: when the request succeeds and the readings lack the region
\* key, pm25 is unset (level "N/A", empty style) but "PM2.5" is not recorded
\* as failed; it is recorded exactly when the request or the extraction
\* raises.
C6_NoKeySilent ==
    WeatherDone =>
        /\ NoRegionKey(calls[3].resp) =>
              /\ wx_ret.v.pm25 = None /\ wx_ret.v.pm25_level = "N/A"
              /\ wx_ret.v.pm25_css_class = ""
              /\ ~Recorded("PM2.5")
        /\ Recorded("PM2.5") <=> Pm25Failed

\* Readings for another region only, every sub-fetch succeeding.
C6_Witness ==
    /\ WeatherDone /\ NoRegionKey(calls[3].resp)
    /\ DOMAIN HourlyOf(calls[3].resp.body).fields # {}
    /\ wx_ret.v.pm25 = None
    /\ wx_ret.v.error = None

\* C8: pm25_level and pm25_css_class follow the thresholds 55, 150, 250, 350
\* with inclusive upper bounds, and pm25 is unset iff the level is "N/A" iff
\* the style is empty.
C8_Pm25Level ==
    WeatherDone =>
        LET info == wx_ret.v
            n == info.pm25.v
        IN  /\ info.pm25.some =>
                 /\ n <= 55 => info.pm25_level = "Good" /\ info.pm25_css_class = "aqi-good"
                 /\ (56 <= n /\ n <= 150) =>
                       info.pm25_level = "Moderate" /\ info.pm25_css_class = "aqi-moderate"
                 /\ (151 <= n /\ n <= 250) =>
                       info.pm25_level = "Unhealthy" /\ info.pm25_css_class = "aqi-unhealthy"
                 /\ (251 <= n /\ n <= 350) =>
                       info.pm25_level = "Very Unhealthy"
                       /\ info.pm25_css_class = "aqi-unhealthy"
                 /\ n > 350 =>
                       info.pm25_level = "Hazardous" /\ info.pm25_css_class = "aqi-unhealthy"
            /\ ~info.pm25.some <=> info.pm25_level = "N/A"
            /\ ~info.pm25.some <=> info.pm25_css_class = ""

\* A reading of exactly 250 is still "Unhealthy".
C8_Witness ==
    /\ WeatherDone
    /\ wx_ret.v.pm25 = Some(250)
    /\ wx_ret.v.pm25_level = "Unhealthy"
    /\ wx_ret.v.pm25_css_class = "aqi-unhealthy"

\* C9: whenever "temperature" is recorded as failed, temp_low, temp_high,
\* humidity_low and humidity_high of the snapshot are all 0.
C9_FailedTemperatureZero ==
    (WeatherDone /\ Recorded("temperature")) =>
        /\ wx_ret.v.temp_low = 0 /\ wx_ret.v.temp_high = 0
        /\ wx_ret.v.humidity_low = 0 /\ wx_ret.v.humidity_high = 0

(***************************************************************************)
(* Properties of the dashboard handler (checked under Spec)                *)
(***************************************************************************)
\* C2: the handler goes on only once all N+1 branches have finished, and it
\* always goes on to a context that pairs route i with the result of the
\* branch issued for route i and carries the weather branch's result,
\* whichever branches failed.
C2_BranchesIsolated ==
    handler # "gather" =>
        /\ \A i \in DOMAIN tasks : tasks[i].state = "returned"
        /\ handler = "rendered"
        /\ context.some
        /\ \A i \in 1..NumServices :
              /\ context.v.bus_sections[i].config = bus_services[i]
              /\ context.v.bus_sections[i].result = tasks[i].result
              /\ context.v.bus_sections[i].result.service_no = bus_services[i].service_no
        /\ context.v.weather = tasks[NumServices + 1].result

=============================================================================
